---- MODULE Spec2Model ----
(***************************************************************************)
(* Export supervisor of src-tauri/src/exporter.rs and the encoder/decoder  *)
(* pipes of src-tauri/src/renderer.rs.                                     *)
(*                                                                         *)
(* Threads: one per export job (Mode A = build_and_run_ffmpeg_filter_      *)
(* complex, Mode B = export_video / start_streaming_export, Concat =       *)
(* concat_videos) and one per cancel_export invocation.  Shared state: the *)
(* process-wide maps ACTIVE_EXPORTS and ACTIVE_STREAMS, and per job the    *)
(* Arc<Mutex<Option<Child>>> slot.  Both mutexes are modelled explicitly.  *)
(* A step of a thread runs from one access of shared state (a mutex, a     *)
(* child process, a pipe) to the next.                                     *)
(*                                                                         *)
(* Spec        Mode A and Concat jobs with cancel_export (the registry)    *)
(* SpecStream  Mode B jobs with cancel_export                              *)
(* SpecB       the Mode B render loop over a range of timeline parameters  *)
(* SpecPlan    the encoder command built by Mode A and by Mode B           *)
(* SpecPrep    preprocess_background_videos over playlists and windows     *)
(* SpecScan    the subtitle directory scan of export_video                 *)
(*                                                                         *)
(* f64 arithmetic on the small millisecond / frame values used here is     *)
(* modelled by exact rational arithmetic (floor for `as i32`/`as usize`,   *)
(* round-half-away-from-zero for f64::round).                              *)
(***************************************************************************)
EXTENDS Integers, Sequences, FiniteSets, TLC

\* ---------------------------------------------------------------- bounds
NumJobs == 2
NumCancels == 1

Jobs == 1..NumJobs
Cancels == 1..NumCancels

\* ------------------------------------------------------------- constants
\* exporter.rs:1668  `100 // dummy` frame count used when duration_ms is None
DummyTotalFrames == 100
\* exporter.rs:1768  progress event every 30 frames
ProgressEvery == 30
\* exporter.rs:1710  i32::MAX upper bound of the last subtitle
I32Max == 2147483647

VARIABLES
    kind,           \* job -> "none" | "A" | "B" | "C"
    pc,             \* job -> position of the job's thread
    result,         \* job -> value returned to the caller
    events,         \* job -> sequence of events emitted to the host UI
    ACTIVE_EXPORTS, \* set of job ids that have an entry in the registry
    ACTIVE_STREAMS, \* set of job ids that have a streaming session
    slot,           \* job -> content of Arc<Mutex<Option<Child>>>
    child,          \* job -> the ffmpeg child of Mode A / Concat
    exportsLock,    \* holder of the ACTIVE_EXPORTS mutex
    slotLock,       \* job -> holder of the slot mutex
    wait_result,    \* job -> status obtained by wait()/try_wait()
    dec,            \* job -> Mode B decoder child
    enc,            \* job -> Mode B encoder child
    cfg,            \* job -> Mode B parameters
    frame_idx,      \* job -> Mode B loop counter
    loop_err,       \* job -> Mode B loop error
    time_ms,        \* job -> frame time of the last composed frame
    current_sub_idx,\* job -> subtitle index of the last composed frame (0 = None)
    blended,        \* job -> TRUE iff render_image ran for the last composed frame
    alpha,          \* job -> <<num, den>>: alpha passed to render_image, as a fraction
    last_sub_idx,   \* job -> index for which the texture was last (re)loaded (0 = None)
    sub_texture,    \* job -> stem of the PNG in the subtitle texture (-1 = nothing uploaded)
    composed_idx,   \* job -> frame_idx of the last composed frame (-1 = none yet)
    finish_res,     \* job -> value returned by VideoEncoder::finish
    written,        \* job -> number of frames written to the encoder pipe
    registered,     \* job -> TRUE once the job inserted itself in ACTIVE_EXPORTS
    sresult,        \* job -> value returned by start_streaming_export to export_video
    cpc,            \* cancel -> position of the cancel_export invocation
    ctarget,        \* cancel -> export_id argument
    cres,           \* cancel -> value returned by cancel_export
    cInFlight,      \* cancel -> TRUE iff the target job was in flight at the lookup
    cEncAlive,      \* cancel -> TRUE iff the target's encoder was running at the lookup
    chunk_index,    \* Option<i32> argument of the export: <<>> = None, <<k>> = Some(k)
    audio_paths,    \* audio inputs of the export: sequence of their durations (ms)
    probe,          \* what the encoder probes answered during choose_best_codec
    cmd,            \* the encoder command line the export has built
    bg_videos,      \* background playlist: sequence of [len |-> ms, image |-> BOOLEAN]
    pre_videos,     \* paths returned by the last preprocess_background_videos call
    cache,          \* files present in the qurancaption-preproc cache directory
    prep_runs,      \* number of preprocess_background_videos calls made
    prep_log,       \* per call: paths returned, cache paths computed, encodes run/failed
    imgs_folder,    \* entries of the subtitle directory, in read_dir order
    scan_files,     \* the PNG files of export_video after its sort
    scan_ts,        \* the onsets export_video passes on
    progress_line,  \* the line of the child's stderr read last
    current_time_s  \* the time (s, us) relayed for that line, if any

jobVars == <<kind, pc, result, events, wait_result, registered, sresult>>
regVars == <<ACTIVE_EXPORTS, ACTIVE_STREAMS, slot, child, exportsLock, slotLock>>
bVars == <<dec, enc, cfg, frame_idx, loop_err, time_ms, current_sub_idx, blended, alpha,
          last_sub_idx, sub_texture,
          composed_idx, finish_res, written>>
cVars == <<cpc, ctarget, cres, cInFlight, cEncAlive>>
cmdVars == <<chunk_index, audio_paths, probe, cmd>>
prepVars == <<bg_videos, pre_videos, cache, prep_runs, prep_log>>
scanVars == <<imgs_folder, scan_files, scan_ts>>
parseVars == <<progress_line, current_time_s>>
planVars == <<cmdVars, prepVars, scanVars, parseVars>>
vars == <<jobVars, regVars, bVars, cVars, planVars>>

Free == <<"free", 0>>
JobThread(j) == <<"job", j>>
CancelThread(c) == <<"cancel", c>>

NoCfg == [fps |-> 1, start_ms |-> 0, has_dur |-> FALSE, dur_ms |-> 0,
          fade_ms |-> 0, ts |-> <<0>>]

NoProbe == [prefer_hw |-> FALSE, listed |-> <<>>, t128 |-> "unused", t256 |-> FALSE]

NoCmd == [mode |-> "none", durations_s |-> <<>>, start_s |-> 0, duration_s |-> 0,
          vcodec |-> "", preset |-> <<>>, vparams |-> <<>>, have_audio |-> FALSE,
          acodec |-> <<>>, inputs |-> <<>>, bg_source |-> "none", bg |-> <<>>,
          total_bg_s |-> 0, filler_idx |-> -1, filler |-> <<>>]

\* ------------------------------------------------------------ arithmetic
Max(a, b) == IF a >= b THEN a ELSE b
Min(a, b) == IF a <= b THEN a ELSE b

\* Fractions <<num, den>> with den > 0 stand for the f32 / f64 quotients of
\* the source; within the bounds used here the floating-point results of
\* the source order and round exactly as the fractions do.
One == <<1, 1>>
RatEq(a, b) == a[1] * b[2] = b[1] * a[2]
RatLt(a, b) == a[1] * b[2] < b[1] * a[2]
RatLe(a, b) == a[1] * b[2] <= b[1] * a[2]
\* f32::min(1.0)
MinOne(a) == IF RatLt(a, One) THEN a ELSE One

\* `x as i32` / `x as usize` of a non-negative quotient a/b: truncation
TruncDiv(a, b) == a \div b

\* f64::round of a non-negative quotient a/b: half away from zero
RoundDiv(a, b) == (2 * a + b) \div (2 * b)

\* --------------------------------------------------------------- helpers
Emit(j, e) == events' = [events EXCEPT ![j] = Append(@, e)]

Return(j, r) == /\ pc' = [pc EXCEPT ![j] = "done"]
                /\ result' = [result EXCEPT ![j] = r]

Terminal(j) == pc[j] = "done"

InFlight(j) == pc[j] \in {"a_stderr", "a_read", "a_waiting", "a_cleanup",
                          "c_poll", "c_cleanup", "b_loop"}

Has(s, e) == \E i \in 1..Len(s) : s[i] = e

\* ------------------------------------------------------------------ Init
\* Every job and every cancel_export invocation idle; job j has parameters f[j].
IdleWith(f) ==
    /\ kind = [j \in Jobs |-> "none"]
    /\ pc = [j \in Jobs |-> "idle"]
    /\ result = [j \in Jobs |-> "none"]
    /\ events = [j \in Jobs |-> <<>>]
    /\ ACTIVE_EXPORTS = {}
    /\ ACTIVE_STREAMS = {}
    /\ slot = [j \in Jobs |-> "unset"]
    /\ child = [j \in Jobs |-> "none"]
    /\ exportsLock = Free
    /\ slotLock = [j \in Jobs |-> Free]
    /\ wait_result = [j \in Jobs |-> "none"]
    /\ dec = [j \in Jobs |-> "none"]
    /\ enc = [j \in Jobs |-> "none"]
    /\ cfg = f
    /\ frame_idx = [j \in Jobs |-> 0]
    /\ loop_err = [j \in Jobs |-> "none"]
    /\ time_ms = [j \in Jobs |-> 0]
    /\ current_sub_idx = [j \in Jobs |-> 0]
    /\ blended = [j \in Jobs |-> FALSE]
    /\ alpha = [j \in Jobs |-> One]
    /\ last_sub_idx = [j \in Jobs |-> 0]
    /\ sub_texture = [j \in Jobs |-> -1]
    /\ composed_idx = [j \in Jobs |-> -1]
    /\ finish_res = [j \in Jobs |-> "none"]
    /\ written = [j \in Jobs |-> 0]
    /\ registered = [j \in Jobs |-> FALSE]
    /\ sresult = [j \in Jobs |-> "none"]
    /\ cpc = [c \in Cancels |-> "idle"]
    /\ ctarget = [c \in Cancels |-> 0]
    /\ cres = [c \in Cancels |-> "none"]
    /\ cInFlight = [c \in Cancels |-> FALSE]
    /\ cEncAlive = [c \in Cancels |-> FALSE]

\* No export command has been built.
PrepIdle ==
    /\ bg_videos = <<>>
    /\ pre_videos = <<>>
    /\ cache = {}
    /\ prep_runs = 0
    /\ prep_log = <<>>

ScanIdle ==
    /\ imgs_folder = <<>>
    /\ scan_files = <<>>
    /\ scan_ts = <<>>

CmdIdle ==
    /\ chunk_index = <<>>
    /\ audio_paths = <<>>
    /\ probe = NoProbe
    /\ cmd = NoCmd

\* No line of a child's stderr has been read.
NoLine == [form |-> "none", text |-> <<>>, h |-> 0, m |-> 0, s |-> 0, us |-> 0]

ParseIdle ==
    /\ progress_line = NoLine
    /\ current_time_s = <<>>

PlanIdle == CmdIdle /\ PrepIdle /\ ScanIdle /\ ParseIdle

Init == IdleWith([j \in Jobs |-> NoCfg]) /\ PlanIdle

\* ------------------------------------------------- the external children
\* The ffmpeg child of a Mode A / Concat job exits on its own.  Its exit
\* status is read only by wait() / try_wait() and is chosen there.
ChildExit(j) ==
    /\ child[j] = "running"
    /\ child' = [child EXCEPT ![j] = "exited"]
    /\ UNCHANGED <<jobVars, bVars, cVars, ACTIVE_EXPORTS, ACTIVE_STREAMS, slot,
                   exportsLock, slotLock>>
    /\ UNCHANGED planVars

\* ------------------------------- Mode A: build_and_run_ffmpeg_filter_complex
\* Lines 822-999: everything up to command.spawn()?.  n == 0, a file error or
\* a spawn error returns Err before anything is registered.
AStart(j) ==
    /\ pc[j] = "idle"
    /\ kind' = [kind EXCEPT ![j] = "A"]
    /\ \/ /\ Return(j, "Err")
          /\ UNCHANGED <<child, slot>>
       \/ /\ pc' = [pc EXCEPT ![j] = "a_register"]
          /\ child' = [child EXCEPT ![j] = "running"]
          /\ slot' = [slot EXCEPT ![j] = "Some"]
          /\ UNCHANGED result
    /\ UNCHANGED <<events, wait_result, registered, sresult, bVars, cVars,
                   ACTIVE_EXPORTS, ACTIVE_STREAMS, exportsLock, slotLock>>
    /\ UNCHANGED planVars

\* Lines 1002-1006: insert into ACTIVE_EXPORTS under its mutex.
ARegister(j) ==
    /\ pc[j] = "a_register"
    /\ exportsLock = Free
    /\ ACTIVE_EXPORTS' = ACTIVE_EXPORTS \cup {j}
    /\ registered' = [registered EXCEPT ![j] = TRUE]
    /\ pc' = [pc EXCEPT ![j] = "a_stderr"]
    /\ UNCHANGED <<kind, result, events, wait_result, sresult, bVars, cVars,
                   ACTIVE_STREAMS, slot, child, exportsLock, slotLock>>
    /\ UNCHANGED planVars

\* Lines 1008-1015: take the child's stderr out of the slot, or return when
\* the slot is already empty.
ATakeStderr(j) ==
    /\ pc[j] = "a_stderr"
    /\ slotLock[j] = Free
    /\ IF slot[j] = "Some"
         THEN /\ pc' = [pc EXCEPT ![j] = "a_read"]
              /\ UNCHANGED result
         ELSE Return(j, "Err")
    /\ UNCHANGED <<kind, events, wait_result, registered, sresult, bVars, cVars,
                   regVars>>
    /\ UNCHANGED planVars

\* Lines 1018-1081: reader.lines() relays progress until the child's stderr
\* is closed (the progress events of Mode A are not recorded); then lock the
\* slot and take() the child.  When the slot is empty, emit export-error and
\* return the Interrupted error.
ATake(j) ==
    /\ pc[j] = "a_read"
    /\ child[j] # "running"
    /\ slotLock[j] = Free
    /\ IF slot[j] = "Some"
         THEN /\ slot' = [slot EXCEPT ![j] = "None"]
              /\ slotLock' = [slotLock EXCEPT ![j] = JobThread(j)]
              /\ pc' = [pc EXCEPT ![j] = "a_waiting"]
              /\ UNCHANGED <<result, events>>
         ELSE /\ Emit(j, "export-error")
              /\ Return(j, "Cancelled")
              /\ UNCHANGED <<slot, slotLock>>
    /\ UNCHANGED <<kind, wait_result, registered, sresult, bVars, cVars,
                   ACTIVE_EXPORTS, ACTIVE_STREAMS, child, exportsLock>>
    /\ UNCHANGED planVars

\* AWait with the slot guard kept after the wait.
AWait_KeepsGuard(j) ==
    /\ pc[j] = "a_waiting"
    /\ child[j] = "exited"
    /\ \E st \in {"exited_ok", "exited_err"} :
           wait_result' = [wait_result EXCEPT ![j] = st]
    /\ pc' = [pc EXCEPT ![j] = "a_cleanup"]
    /\ UNCHANGED <<kind, result, events, registered, sresult, bVars, cVars, regVars>>
    /\ UNCHANGED planVars

\* Line 1065: child.wait()? with the slot guard held; an io::Error returns
\* at once through `?`.
AWait(j) ==
    /\ pc[j] = "a_waiting"
    /\ child[j] = "exited"
    /\ slotLock' = [slotLock EXCEPT ![j] = Free]
    /\ \/ /\ \E st \in {"exited_ok", "exited_err"} :
                 wait_result' = [wait_result EXCEPT ![j] = st]
          /\ pc' = [pc EXCEPT ![j] = "a_cleanup"]
          /\ UNCHANGED result
       \/ /\ wait_result' = [wait_result EXCEPT ![j] = "io_error"]
          /\ Return(j, "Err")
    /\ UNCHANGED <<kind, events, registered, sresult, bVars, cVars,
                   ACTIVE_EXPORTS, ACTIVE_STREAMS, slot, child, exportsLock>>
    /\ UNCHANGED planVars

\* Lines 1084-1148: remove the registry entry, then report by exit status.
ACleanup(j) ==
    /\ pc[j] = "a_cleanup"
    /\ exportsLock = Free
    /\ ACTIVE_EXPORTS' = ACTIVE_EXPORTS \ {j}
    /\ IF wait_result[j] = "exited_ok"
         THEN /\ Return(j, "Ok")
              /\ UNCHANGED events
         ELSE /\ Emit(j, "export-error")
              /\ Return(j, "Err")
    /\ UNCHANGED <<kind, wait_result, registered, sresult, bVars, cVars,
                   ACTIVE_STREAMS, slot, child, exportsLock, slotLock>>
    /\ UNCHANGED planVars

\* ------------------------------------------------------ concat_videos
\* Lines 1426-1517: no input, the single-input copy, a missing input file or
\* a spawn error return before anything is registered.
CStart(j) ==
    /\ pc[j] = "idle"
    /\ kind' = [kind EXCEPT ![j] = "C"]
    /\ \E n \in 0..2 :
         IF n = 0
           THEN /\ Return(j, "Err")
                /\ UNCHANGED <<child, slot>>
         ELSE IF n = 1
           THEN /\ \E r \in {"Ok", "Err"} : Return(j, r)
                /\ UNCHANGED <<child, slot>>
         ELSE \/ /\ Return(j, "Err")
                 /\ UNCHANGED <<child, slot>>
              \/ /\ pc' = [pc EXCEPT ![j] = "c_register"]
                 /\ child' = [child EXCEPT ![j] = "running"]
                 /\ slot' = [slot EXCEPT ![j] = "Some"]
                 /\ UNCHANGED result
    /\ UNCHANGED <<events, wait_result, registered, sresult, bVars, cVars,
                   ACTIVE_EXPORTS, ACTIVE_STREAMS, exportsLock, slotLock>>
    /\ UNCHANGED planVars

\* Lines 1519-1525: insert into ACTIVE_EXPORTS under its mutex.
CRegister(j) ==
    /\ pc[j] = "c_register"
    /\ exportsLock = Free
    /\ ACTIVE_EXPORTS' = ACTIVE_EXPORTS \cup {j}
    /\ registered' = [registered EXCEPT ![j] = TRUE]
    /\ pc' = [pc EXCEPT ![j] = "c_poll"]
    /\ UNCHANGED <<kind, result, events, wait_result, sresult, bVars, cVars,
                   ACTIVE_STREAMS, slot, child, exportsLock, slotLock>>
    /\ UNCHANGED planVars

\* Lines 1532-1563: one iteration of the polling loop that leaves it.  The
\* slot guard is taken and released inside the iteration; the child stays in
\* the slot (try_wait through as_mut, never take()).  An iteration that finds
\* the child still running sleeps 500 ms and polls again: it changes nothing.
CPoll(j) ==
    /\ pc[j] = "c_poll"
    /\ slotLock[j] = Free
    /\ IF slot[j] # "Some"
         THEN /\ Return(j, "Cancelled")
              /\ UNCHANGED wait_result
         ELSE \/ /\ child[j] = "exited"
                 /\ \E st \in {"exited_ok", "exited_err"} :
                        wait_result' = [wait_result EXCEPT ![j] = st]
                 /\ pc' = [pc EXCEPT ![j] = "c_cleanup"]
                 /\ UNCHANGED result
              \/ /\ wait_result' = [wait_result EXCEPT ![j] = "io_error"]
                 /\ pc' = [pc EXCEPT ![j] = "c_cleanup"]
                 /\ UNCHANGED result
    /\ UNCHANGED <<kind, events, registered, sresult, bVars, cVars, regVars>>
    /\ UNCHANGED planVars

\* Lines 1566-1590: remove the registry entry, then report by exit status
\* and by the existence of the output file.
CCleanup(j) ==
    /\ pc[j] = "c_cleanup"
    /\ exportsLock = Free
    /\ ACTIVE_EXPORTS' = ACTIVE_EXPORTS \ {j}
    /\ IF wait_result[j] = "exited_ok"
         THEN \E exists \in BOOLEAN : Return(j, IF exists THEN "Ok" ELSE "Err")
         ELSE Return(j, "Err")
    /\ UNCHANGED <<kind, events, wait_result, registered, sresult, bVars, cVars,
                   ACTIVE_STREAMS, slot, child, exportsLock, slotLock>>
    /\ UNCHANGED planVars

\* ------------------------------------------------------- cancel_export
\* Lines 1387-1398: the call, and step 1 (remove the streaming session).
CancelStart(c) ==
    /\ cpc[c] = "idle"
    /\ \E j \in Jobs :
         /\ ctarget' = [ctarget EXCEPT ![c] = j]
         /\ ACTIVE_STREAMS' = ACTIVE_STREAMS \ {j}
    /\ cpc' = [cpc EXCEPT ![c] = "lookup"]
    /\ UNCHANGED <<jobVars, bVars, cres, cInFlight, cEncAlive, ACTIVE_EXPORTS, slot,
                   child, exportsLock, slotLock>>
    /\ UNCHANGED planVars

\* CancelLookup with the not-found branch answering like the already-finished
\* branch of lines 1410-1413 (Ok instead of Err).
CancelLookup_NotFoundOk(c) ==
    /\ cpc[c] = "lookup"
    /\ exportsLock = Free
    /\ cInFlight' = [cInFlight EXCEPT ![c] = InFlight(ctarget[c])]
    /\ cEncAlive' = [cEncAlive EXCEPT ![c] = (enc[ctarget[c]] = "running")]
    /\ IF ctarget[c] \in ACTIVE_EXPORTS
         THEN /\ ACTIVE_EXPORTS' = ACTIVE_EXPORTS \ {ctarget[c]}
              /\ exportsLock' = CancelThread(c)
              /\ cpc' = [cpc EXCEPT ![c] = "lock_slot"]
              /\ UNCHANGED cres
         ELSE /\ cres' = [cres EXCEPT ![c] = "OkAlreadyDone"]
              /\ cpc' = [cpc EXCEPT ![c] = "done"]
              /\ UNCHANGED <<ACTIVE_EXPORTS, exportsLock>>
    /\ UNCHANGED <<jobVars, bVars, ctarget, ACTIVE_STREAMS, slot, child, slotLock>>
    /\ UNCHANGED planVars

\* Lines 1401-1402 and 1414-1417: lock ACTIVE_EXPORTS and remove the entry.
\* The guard stays held until the function returns.
CancelLookup(c) ==
    /\ cpc[c] = "lookup"
    /\ exportsLock = Free
    /\ cInFlight' = [cInFlight EXCEPT ![c] = InFlight(ctarget[c])]
    /\ cEncAlive' = [cEncAlive EXCEPT ![c] = (enc[ctarget[c]] = "running")]
    /\ IF ctarget[c] \in ACTIVE_EXPORTS
         THEN /\ ACTIVE_EXPORTS' = ACTIVE_EXPORTS \ {ctarget[c]}
              /\ exportsLock' = CancelThread(c)
              /\ cpc' = [cpc EXCEPT ![c] = "lock_slot"]
              /\ UNCHANGED cres
         ELSE /\ cres' = [cres EXCEPT ![c] = "ErrNotFound"]
              /\ cpc' = [cpc EXCEPT ![c] = "done"]
              /\ UNCHANGED <<ACTIVE_EXPORTS, exportsLock>>
    /\ UNCHANGED <<jobVars, bVars, ctarget, ACTIVE_STREAMS, slot, child, slotLock>>
    /\ UNCHANGED planVars

\* Lines 1404-1413: lock the slot, take() the child, kill and reap it.
CancelKill(c) ==
    /\ cpc[c] = "lock_slot"
    /\ slotLock[ctarget[c]] = Free
    /\ IF slot[ctarget[c]] = "Some"
         THEN /\ slot' = [slot EXCEPT ![ctarget[c]] = "None"]
              /\ child' = [child EXCEPT ![ctarget[c]] =
                              IF @ = "running" THEN "killed" ELSE @]
              /\ cres' = [cres EXCEPT ![c] = "OkCancelled"]
         ELSE /\ cres' = [cres EXCEPT ![c] = "OkAlreadyDone"]
              /\ UNCHANGED <<slot, child>>
    /\ exportsLock' = Free
    /\ cpc' = [cpc EXCEPT ![c] = "done"]
    /\ UNCHANGED <<jobVars, bVars, ctarget, cInFlight, cEncAlive, ACTIVE_EXPORTS,
                   ACTIVE_STREAMS, slotLock>>
    /\ UNCHANGED planVars

\* --------------------- Mode B: export_video / start_streaming_export
\* Line 1705: (frame_idx as f64 / fps as f64 * 1000.0) as i32 + start_time_ms
FrameTimeMs(k, c) == TruncDiv(k * 1000, c.fps) + c.start_ms

\* Line 1710: end of subtitle i (1-based here)
SubEnd(i, ts) == IF i + 1 <= Len(ts) THEN ts[i + 1] ELSE I32Max

\* Lines 1708-1715: linear search, first match wins; 0 stands for None.
FindSub(t, ts) ==
    LET hits == {i \in 1..Len(ts) : t >= ts[i] /\ t < SubEnd(i, ts)}
    IN  IF hits = {} THEN 0 ELSE CHOOSE i \in hits : \A k \in hits : i <= k

\* Line 1734: the last subtitle is taken to end 2000 ms after its onset.
LastSubSpanMs == 2000

\* A blend without fade: alpha is 1 at every frame of the subtitle.
AlphaOf_NoFade(t, i, c) == One

\* Lines 1733-1744: alpha of subtitle i (1-based) at frame time t.
AlphaOf(t, i, c) ==
    LET start_ms == c.ts[i]
        end_ms == IF i + 1 <= Len(c.ts) THEN c.ts[i + 1] ELSE c.ts[i] + LastSubSpanMs
        rel_ms == t - start_ms
        rel_end_ms == end_ms - t
    IN  IF rel_ms < c.fade_ms THEN MinOne(<<rel_ms, c.fade_ms>>)
        ELSE IF rel_end_ms < c.fade_ms THEN MinOne(<<rel_end_ms, c.fade_ms>>)
        ELSE One

\* Line 1720: the file loaded for the subtitle at position i (1-based here,
\* 0-based in the source) is format!("{}.png", idx).
SubPathStem(i) == i - 1

\* Line 1721: the directory holds one PNG per onset, named <onset>.png
\* (export_video lines 1230-1238 derive the onsets from these names).
SubtitleFileExists(stem, c) == \E k \in 1..Len(c.ts) : c.ts[k] = stem

\* Lines 1664-1669: number of iterations of the render loop.
TotalFrames(c) ==
    IF c.has_dur THEN TruncDiv(c.dur_ms * c.fps, 1000) ELSE DummyTotalFrames

\* Parameters a Mode B job of the supervisor specification runs with.
LifecycleCfgs ==
    {[fps |-> 2, start_ms |-> 0, has_dur |-> TRUE, dur_ms |-> 1000,
      fade_ms |-> 200, ts |-> <<0, 500>>]}

\* export_video lines 1166-1310 and start_streaming_export lines 1612-1669:
\* any failure of the prelude (no PNG, unreadable image, renderer, missing
\* background, decoder or encoder spawn) returns Err; otherwise the decoder
\* and the encoder children run.  Nothing is inserted in ACTIVE_EXPORTS or
\* ACTIVE_STREAMS (lines 1653-1662 are a comment block only).
BStart(j) ==
    /\ pc[j] = "idle"
    /\ kind' = [kind EXCEPT ![j] = "B"]
    /\ \/ /\ Return(j, "Err")
          /\ UNCHANGED <<dec, enc, cfg>>
       \/ /\ \E c \in LifecycleCfgs : cfg' = [cfg EXCEPT ![j] = c]
          /\ dec' = [dec EXCEPT ![j] = "running"]
          /\ enc' = [enc EXCEPT ![j] = "running"]
          /\ pc' = [pc EXCEPT ![j] = "b_loop"]
          /\ UNCHANGED result
    /\ UNCHANGED <<events, wait_result, registered, sresult, frame_idx, loop_err,
                   time_ms, current_sub_idx, blended, alpha, last_sub_idx, sub_texture,
                   composed_idx, finish_res,
                   written, cVars, regVars>>
    /\ UNCHANGED planVars

\* The encoder child exits on its own (crash, or its -t limit is reached).
EncExit(j) ==
    /\ enc[j] = "running"
    /\ pc[j] = "b_loop"
    /\ enc' = [enc EXCEPT ![j] = "exited"]
    /\ UNCHANGED <<jobVars, regVars, cVars, dec, cfg, frame_idx, loop_err, time_ms,
                   current_sub_idx, blended, alpha, last_sub_idx, sub_texture,
                   composed_idx, finish_res, written>>
    /\ UNCHANGED planVars

\* Lines 1778-1791 and export_video lines 1310-1339.  After the loop the
\* closure emits export-error when loop_err is set; otherwise finish()
\* (renderer.rs 224-233) closes the pipe and waits for the encoder, and
\* export-complete or export-error is emitted by its exit status `ok`.
\* start_streaming_export returns Ok(()) in every case, so export_video goes
\* on to emit export-complete and returns Ok(out_path).
EndOfExport(j, err, ok) ==
    /\ loop_err' = [loop_err EXCEPT ![j] = err]
    /\ finish_res' = [finish_res EXCEPT ![j] =
                         IF err # "none" THEN "none" ELSE IF ok THEN "Ok" ELSE "Err"]
    /\ enc' = [enc EXCEPT ![j] = IF err = "none" THEN "exited" ELSE @]
    /\ events' = [events EXCEPT ![j] =
                     Append(Append(@, IF err = "none" /\ ok THEN "export-complete"
                                                            ELSE "export-error"),
                            "export-complete")]
    /\ sresult' = [sresult EXCEPT ![j] = "Ok"]
    /\ Return(j, "Ok")

\* Lines 1687-1689: frame_idx >= total_frames leaves the loop without error.
BLoopDone(j) ==
    /\ pc[j] = "b_loop"
    /\ frame_idx[j] >= TotalFrames(cfg[j])
    /\ \E ok \in BOOLEAN : EndOfExport(j, "none", ok)
    /\ UNCHANGED <<kind, wait_result, registered, dec, cfg, frame_idx, time_ms,
                   current_sub_idx, blended, alpha, last_sub_idx, sub_texture,
                   composed_idx, written, cVars, regVars>>
    /\ UNCHANGED planVars

\* Lines 1692-1699 with renderer.rs 97-110: read_frame returns "EOF" (leave
\* the loop without error) or another error (loop_err).
BReadFail(j) ==
    /\ pc[j] = "b_loop"
    /\ frame_idx[j] < TotalFrames(cfg[j])
    /\ \/ /\ dec' = [dec EXCEPT ![j] = "exited"]
          /\ \E ok \in BOOLEAN : EndOfExport(j, "none", ok)
       \/ /\ EndOfExport(j, "read", FALSE)
          /\ UNCHANGED dec
    /\ UNCHANGED <<kind, wait_result, registered, cfg, frame_idx, time_ms,
                   current_sub_idx, blended, alpha, last_sub_idx, sub_texture,
                   composed_idx, written, cVars, regVars>>
    /\ UNCHANGED planVars

\* Lines 1701-1749: frame time, subtitle selection and blend of frame k.
Compose(j, k) ==
    LET t == FrameTimeMs(k, cfg[j])
        i == FindSub(t, cfg[j].ts)
    IN  /\ time_ms' = [time_ms EXCEPT ![j] = t]
        /\ current_sub_idx' = [current_sub_idx EXCEPT ![j] = i]
        /\ blended' = [blended EXCEPT ![j] = (i # 0)]
        /\ alpha' = [alpha EXCEPT ![j] = IF i # 0 THEN AlphaOf(t, i, cfg[j]) ELSE @]
        /\ last_sub_idx' = [last_sub_idx EXCEPT ![j] = i]
        /\ sub_texture' = [sub_texture EXCEPT ![j] =
                               IF i # 0 /\ last_sub_idx[j] # i
                                    /\ SubtitleFileExists(SubPathStem(i), cfg[j])
                                 THEN SubPathStem(i) ELSE @]
        /\ composed_idx' = [composed_idx EXCEPT ![j] = k]

\* Lines 1692-1775: one full iteration: decode, upload, compose, read back,
\* write to the encoder pipe, emit progress, count.
BFrame(j) ==
    /\ pc[j] = "b_loop"
    /\ frame_idx[j] < TotalFrames(cfg[j])
    /\ enc[j] = "running"
    /\ Compose(j, frame_idx[j])
    /\ written' = [written EXCEPT ![j] = @ + 1]
    /\ IF frame_idx[j] % ProgressEvery = 0
         THEN Emit(j, "export-progress")
         ELSE UNCHANGED events
    /\ frame_idx' = [frame_idx EXCEPT ![j] = @ + 1]
    /\ UNCHANGED <<kind, pc, result, wait_result, registered, sresult, dec, enc, cfg,
                   loop_err, finish_res, cVars, regVars>>
    /\ UNCHANGED planVars

\* Lines 1752-1765: the iteration fails at readback (GPU) or at write_frame
\* (renderer.rs 220-222: the pipe is broken once the encoder is gone).
BFrameFail(j) ==
    /\ pc[j] = "b_loop"
    /\ frame_idx[j] < TotalFrames(cfg[j])
    /\ Compose(j, frame_idx[j])
    /\ \/ EndOfExport(j, "gpu", FALSE)
       \/ /\ enc[j] # "running"
          /\ EndOfExport(j, "write", FALSE)
    /\ UNCHANGED <<kind, wait_result, registered, dec, cfg, frame_idx, written,
                   cVars, regVars>>
    /\ UNCHANGED planVars

\* ---------------------------------------------- supervisor specification
\* The jobs that use the registry (Mode A and Concat) and cancel_export.
\* Mode B jobs insert nothing in ACTIVE_EXPORTS / ACTIVE_STREAMS and take
\* neither mutex, so they share no state with these threads; they run in the
\* streaming specification below.
Next ==
    \/ \E j \in Jobs : ChildExit(j)
    \/ \E j \in Jobs : AStart(j)
    \/ \E j \in Jobs : ARegister(j)
    \/ \E j \in Jobs : ATakeStderr(j)
    \/ \E j \in Jobs : ATake(j)
    \/ \E j \in Jobs : AWait(j)
    \/ \E j \in Jobs : ACleanup(j)
    \/ \E j \in Jobs : CStart(j)
    \/ \E j \in Jobs : CRegister(j)
    \/ \E j \in Jobs : CPoll(j)
    \/ \E j \in Jobs : CCleanup(j)
    \/ \E c \in Cancels : CancelStart(c)
    \/ \E c \in Cancels : CancelLookup(c)
    \/ \E c \in Cancels : CancelKill(c)

Spec == Init /\ [][Next]_vars

\* --------------------------------------------------- fair specification
\* Two concurrent jobs, each a Mode A export or a concat_videos, and the
\* cancel_export calls, with the threads scheduled: a thread that can take
\* its next step (register, lock, wait on an exited child, clean up)
\* eventually takes it.  Nothing is assumed of the calls themselves (AStart,
\* CStart, CancelStart) nor of the children (ChildExit).
FairJobs == {1, 2}

NextFair ==
    \/ \E j \in FairJobs : ChildExit(j)
    \/ \E j \in FairJobs : AStart(j)
    \/ \E j \in FairJobs : ARegister(j)
    \/ \E j \in FairJobs : ATakeStderr(j)
    \/ \E j \in FairJobs : ATake(j)
    \/ \E j \in FairJobs : AWait(j)
    \/ \E j \in FairJobs : ACleanup(j)
    \/ \E j \in FairJobs : CStart(j)
    \/ \E j \in FairJobs : CRegister(j)
    \/ \E j \in FairJobs : CPoll(j)
    \/ \E j \in FairJobs : CCleanup(j)
    \/ \E c \in Cancels : CancelStart(c)
    \/ \E c \in Cancels : CancelLookup(c)
    \/ \E c \in Cancels : CancelKill(c)

Fairness ==
    /\ \A j \in FairJobs :
          /\ WF_vars(ARegister(j)) /\ WF_vars(ATakeStderr(j)) /\ WF_vars(ATake(j))
          /\ WF_vars(AWait(j)) /\ WF_vars(ACleanup(j))
          /\ WF_vars(CRegister(j)) /\ WF_vars(CPoll(j)) /\ WF_vars(CCleanup(j))
    /\ \A c \in Cancels : WF_vars(CancelLookup(c)) /\ WF_vars(CancelKill(c))

SpecFair == Init /\ [][NextFair]_vars /\ Fairness

\* ----------------------------------------------- streaming specification
\* Mode B jobs (export_video -> start_streaming_export) and cancel_export.
\* No job of this specification ever has a registry entry, so cancel_export
\* always ends in its lookup (CancelKill is never enabled here).
NextStream ==
    \/ \E j \in Jobs : BStart(j)
    \/ \E j \in Jobs : EncExit(j)
    \/ \E j \in Jobs : BLoopDone(j)
    \/ \E j \in Jobs : BReadFail(j)
    \/ \E j \in Jobs : BFrame(j)
    \/ \E j \in Jobs : BFrameFail(j)
    \/ \E c \in Cancels : CancelStart(c)
    \/ \E c \in Cancels : CancelLookup(c)

SpecStream == Init /\ [][NextStream]_vars

\* ------------------------------------------- render-loop specification
\* One Mode B export that has passed its prelude, for every parameter set of
\* FrameCfgs; no other job and no cancel runs.
MaxFps == 3
MaxDurSteps == 4
DurStepMs == 250

FpsSet == 2..MaxFps
DurSet == {DurStepMs * k : k \in 1..MaxDurSteps}
StartSet == {0, 100}
FadeSet == {200, 500}
\* sorted, strictly increasing onsets (export_video lines 1204-1238)
OnsetLists == {<<0>>, <<0, 500>>, <<100, 400, 700>>, <<334, 667>>}

\* Scenario of the design document: onsets 0, 500, 1000 ms, fade 200 ms,
\* 30 fps, window [0, 2000).
ScenarioCfgs ==
    {[fps |-> 30, start_ms |-> 0, has_dur |-> TRUE, dur_ms |-> 2000,
      fade_ms |-> 200, ts |-> <<0, 500, 1000>>]}

FrameCfgs ==
    ScenarioCfgs
    \cup
    {[fps |-> f, start_ms |-> s, has_dur |-> h, dur_ms |-> d, fade_ms |-> fd, ts |-> t] :
        f \in FpsSet, s \in StartSet, h \in {TRUE}, d \in DurSet, fd \in FadeSet,
        t \in OnsetLists}
    \cup
    {[fps |-> f, start_ms |-> s, has_dur |-> FALSE, dur_ms |-> 0, fade_ms |-> fd, ts |-> t] :
        f \in FpsSet, s \in StartSet, fd \in FadeSet, t \in OnsetLists}

InitB ==
    /\ kind = [j \in Jobs |-> IF j = 1 THEN "B" ELSE "none"]
    /\ pc = [j \in Jobs |-> IF j = 1 THEN "b_loop" ELSE "idle"]
    /\ result = [j \in Jobs |-> "none"]
    /\ events = [j \in Jobs |-> <<>>]
    /\ ACTIVE_EXPORTS = {}
    /\ ACTIVE_STREAMS = {}
    /\ slot = [j \in Jobs |-> "unset"]
    /\ child = [j \in Jobs |-> "none"]
    /\ exportsLock = Free
    /\ slotLock = [j \in Jobs |-> Free]
    /\ wait_result = [j \in Jobs |-> "none"]
    /\ dec = [j \in Jobs |-> IF j = 1 THEN "running" ELSE "none"]
    /\ enc = [j \in Jobs |-> IF j = 1 THEN "running" ELSE "none"]
    /\ \E c \in FrameCfgs : cfg = [j \in Jobs |-> IF j = 1 THEN c ELSE NoCfg]
    /\ frame_idx = [j \in Jobs |-> 0]
    /\ loop_err = [j \in Jobs |-> "none"]
    /\ time_ms = [j \in Jobs |-> 0]
    /\ current_sub_idx = [j \in Jobs |-> 0]
    /\ blended = [j \in Jobs |-> FALSE]
    /\ alpha = [j \in Jobs |-> One]
    /\ last_sub_idx = [j \in Jobs |-> 0]
    /\ sub_texture = [j \in Jobs |-> -1]
    /\ composed_idx = [j \in Jobs |-> -1]
    /\ finish_res = [j \in Jobs |-> "none"]
    /\ written = [j \in Jobs |-> 0]
    /\ registered = [j \in Jobs |-> FALSE]
    /\ sresult = [j \in Jobs |-> "none"]
    /\ cpc = [c \in Cancels |-> "idle"]
    /\ ctarget = [c \in Cancels |-> 0]
    /\ cres = [c \in Cancels |-> "none"]
    /\ cInFlight = [c \in Cancels |-> FALSE]
    /\ cEncAlive = [c \in Cancels |-> FALSE]
    /\ PlanIdle

NextB ==
    \/ \E j \in Jobs : EncExit(j)
    \/ \E j \in Jobs : BLoopDone(j)
    \/ \E j \in Jobs : BReadFail(j)
    \/ \E j \in Jobs : BFrame(j)
    \/ \E j \in Jobs : BFrameFail(j)

SpecB == InitB /\ [][NextB]_vars

\* ------------------------------------------------ timeline calculator
\* calculate_export_timings lines 589: tail_ms = max(fade_duration_ms, 1000)
TailMs(c) == Max(c.fade_ms, 1000)

\* calculate_export_timings lines 592-596: snap_time, in frames
\* (round(ms / 1000 / frame_duration)); snap_time(ms) = SnapFrames / fps.
SnapFrames(ms, fps) == RoundDiv(ms * fps, 1000)

\* calculate_export_timings lines 598-605: duration_s * fps, i.e.
\* max(end_s - start_s, frame_duration) counted in frames.
DurationFrames(c) ==
    LET end_ms == IF c.has_dur THEN c.start_ms + c.dur_ms
                               ELSE c.ts[Len(c.ts)] + TailMs(c)
    IN  Max(SnapFrames(end_ms, c.fps) - SnapFrames(c.start_ms, c.fps), 1)

\* Times of a built command are counted in ticks of 1 / (1000 * fps) second:
\* one millisecond is fps ticks, one frame is 1000 ticks.
MsTicks(ms, fps) == ms * fps
FrameTicks == 1000

\* calculate_export_timings lines 607-613: raw_durations[i] =
\* (snap_time(t_next) - snap_time(t_curr)).max(0.001); 0.001 s is fps ticks.
SegDur(i, c) ==
    LET t_curr == c.ts[i]
        t_next == IF i < Len(c.ts) THEN c.ts[i + 1] ELSE c.ts[i] + TailMs(c)
    IN  Max(FrameTicks * (SnapFrames(t_next, c.fps) - SnapFrames(t_curr, c.fps)),
            MsTicks(1, c.fps))

\* calculate_export_timings lines 580-628
calculate_export_timings(c) ==
    [durations_s |-> [i \in 1..Len(c.ts) |-> SegDur(i, c)],
     start_s |-> FrameTicks * SnapFrames(c.start_ms, c.fps),
     duration_s |-> FrameTicks * DurationFrames(c)]

RECURSIVE SumSeq(_)
SumSeq(q) == IF q = <<>> THEN 0 ELSE q[1] + SumSeq(Tail(q))

\* build_filter_complex_content lines 684-722: segment i of the overlay is
\* the trim [pipe_start, pipe_start + pure_duration) of the image stream,
\* pipe_start being the sum of the durations before it; the segments are
\* concatenated from output time 0.
PipeStart(durations_s, i) == SumSeq(SubSeq(durations_s, 1, i - 1))

\* The segment whose trim interval contains output time tau (0 = none).
TrimIndex(durations_s, tau) ==
    LET hits == {i \in 1..Len(durations_s) :
                    /\ PipeStart(durations_s, i) <= tau
                    /\ tau < PipeStart(durations_s, i) + durations_s[i]}
    IN  IF hits = {} THEN 0 ELSE CHOOSE i \in hits : \A k \in hits : i <= k

\* ------------------------------------------------------- codec selection
Nvenc == "h264_nvenc"
Qsv == "h264_qsv"
Amf == "h264_amf"

\* probe_hw_encoders lines 184-209: the listed encoders, in this order.
HwListings ==
    {<<>>, <<Nvenc>>, <<Qsv>>, <<Amf>>, <<Nvenc, Qsv>>, <<Nvenc, Amf>>, <<Qsv, Amf>>,
     <<Nvenc, Qsv, Amf>>}

\* Outcome of the 128x128 validation encode (lines 111-143): success, a
\* stderr naming a missing device / driver / CUDA, a stderr naming the frame
\* dimension, any other failure, or the command could not be run.
Test128Outcomes == {"ok", "no_device", "frame_dim", "other", "spawn_err"}

\* test_nvenc_availability lines 87-144 with
\* test_nvenc_with_larger_resolution lines 146-182
test_nvenc_availability(t128, t256) ==
    IF t128 = "ok" THEN TRUE
    ELSE IF t128 = "frame_dim" THEN t256
    ELSE FALSE

\* The answers choose_best_codec can get: the listing is asked only when
\* prefer_hw, the validation encode is run only when the first listed encoder
\* is NVENC, the retry only after a frame-dimension failure.
Probes ==
    {pr \in [prefer_hw : BOOLEAN, listed : HwListings,
             t128 : Test128Outcomes \cup {"unused"}, t256 : BOOLEAN] :
        /\ ~pr.prefer_hw => pr.listed = <<>>
        /\ (pr.t128 # "unused") <=> (pr.listed # <<>> /\ pr.listed[1] = Nvenc)
        /\ pr.t256 => pr.t128 = "frame_dim"}

Libx264Plan ==
    [vcodec |-> "libx264",
     vparams |-> <<"-pix_fmt", "yuv420p", "-crf", "22", "-tune", "zerolatency",
                   "-bf", "0">>,
     preset |-> <<"ultrafast">>]

\* choose_best_codec lines 211-259
choose_best_codec(pr) ==
    LET hw == pr.listed
    IN  IF hw # <<>> /\ hw[1] = Nvenc /\ test_nvenc_availability(pr.t128, pr.t256)
          THEN [vcodec |-> hw[1], vparams |-> <<"-pix_fmt", "yuv420p", "-bf", "0">>,
                preset |-> <<"p4">>]
        ELSE IF hw # <<>> /\ hw[1] # Nvenc
          THEN [vcodec |-> hw[1], vparams |-> <<"-pix_fmt", "yuv420p">>,
                preset |-> <<>>]
        ELSE Libx264Plan

\* ------------------------------------------------- background preparer
\* Line 460: limit_ms is i64::MAX without a window; any value above every
\* playlist length and window gives the same walk.
LimitNone == 1000000000

\* Lines 423-427: length (ms) of the video made from a single image when no
\* window is given.
ImageDefaultMs == 30000

\* Every segment taken from the beginning of its clip.
StartWithin_Zero(start_time_ms, cum_start) == 0

\* Line 481
StartWithin(start_time_ms, cum_start) ==
    IF start_time_ms > cum_start THEN start_time_ms - cum_start ELSE 0

\* Lines 497-500 and 433-436: the cache file of a segment is named by the
\* hash of (path, w, h, fps, start, len, blur, hw); w, h, fps, blur and hw
\* are the same for all calls here, and the paths of a playlist are distinct.
CacheKey(idx, start_within, take_ms) == <<idx, start_within, take_ms>>

Segment(idx, start_within, take_ms, src) ==
    [clip |-> idx, start |-> start_within, take |-> take_ms, src |-> src]

\* Lines 463-527: the walk from clip idx on.  acc.out are the paths pushed so
\* far, acc.cache the cache files; the encode of clip i fails iff i \in fail.
\* Line 486: what is taken of a clip is the rest of the budget or the rest
\* of the clip, whichever is shorter.
TakeMs_WholeClip(remaining_needed, vid_len, start_within) == vid_len

TakeMs(remaining_needed, vid_len, start_within) ==
    Min(remaining_needed, vid_len - start_within)

\* Lines 438 and 504 (`dst.exists()`): the encode is skipped when the cache
\* file is there.
CacheHit_Never(key, files) == FALSE

CacheHit(key, files) == key \in files

\* What one call has done so far: the returned paths, the cache directory,
\* the cache path computed for each segment, the clips whose encode was run
\* and the clips whose encode failed.
PrepStart(files) ==
    [out |-> <<>>, cache |-> files, keys |-> <<>>, encoded |-> {}, failed |-> {}]

\* The walk of lines 463-527 from clip idx on.
RECURSIVE Walk(_, _, _, _, _, _, _)
Walk(v, start_time_ms, limit_ms, fail, idx, cum_start, acc) ==
    IF idx > Len(v) THEN acc
    ELSE
      LET vid_len == v[idx].len
          cum_end == cum_start + vid_len
          elapsed_so_far == cum_start - start_time_ms
          start_within == StartWithin(start_time_ms, cum_start)
          elapsed_from_start == (cum_start + start_within) - start_time_ms
          remaining_needed == Max(limit_ms - elapsed_from_start, 0)
          take_ms == TakeMs(remaining_needed, vid_len, start_within)
          key == CacheKey(idx, start_within, take_ms)
          elapsed_total == (cum_start + start_within + take_ms) - start_time_ms
          hit == CacheHit(key, acc.cache)
          ran == [acc EXCEPT !.keys = Append(@, key),
                             !.encoded = IF hit THEN @ ELSE @ \cup {idx}]
          next(a) == Walk(v, start_time_ms, limit_ms, fail, idx + 1, cum_end, a)
      IN  IF cum_end <= start_time_ms THEN next(acc)
          ELSE IF elapsed_so_far >= limit_ms THEN acc
          ELSE IF take_ms <= 0 THEN next(acc)
          ELSE IF ~hit /\ idx \in fail
            THEN next([ran EXCEPT !.out = Append(@, Segment(idx, start_within, take_ms,
                                                             "original")),
                                  !.failed = @ \cup {idx}])
          ELSE
            LET a2 == [ran EXCEPT !.out = Append(@, Segment(idx, start_within, take_ms,
                                                             "cache")),
                                  !.cache = @ \cup {key}]
            IN  IF elapsed_total >= limit_ms THEN a2 ELSE next(a2)

\* Lines 420-450: a playlist of one image becomes one video of the window
\* length (30 s without a window); a failed encode returns no path at all.
PrepareImage(c, fail, files) ==
    LET dur_ms == IF c.has_dur THEN c.dur_ms ELSE ImageDefaultMs
        key == CacheKey(1, -1, dur_ms)
        hit == CacheHit(key, files)
        ran == [PrepStart(files) EXCEPT !.keys = <<key>>,
                                        !.encoded = IF hit THEN {} ELSE {1}]
    IN  IF ~hit /\ 1 \in fail
          THEN [ran EXCEPT !.failed = {1}]
          ELSE [ran EXCEPT !.out = <<Segment(1, -1, dur_ms, "image")>>,
                           !.cache = @ \cup {key}]

\* preprocess_background_videos lines 414-530
preprocess_background_videos(v, c, fail, files) ==
    IF Len(v) = 1 /\ v[1].image
      THEN PrepareImage(c, fail, files)
      ELSE Walk(v, c.start_ms, IF c.has_dur THEN c.dur_ms ELSE LimitNone, fail, 1, 0,
                PrepStart(files))

MaxPrepRuns == 2

\* The effect of one call of preprocess_background_videos with window c in
\* which the encodes of the clips in fail fail.
PrepResult(c, fail) == preprocess_background_videos(bg_videos, c, fail, cache)

DoPreprocess(c, fail) ==
    LET r == PrepResult(c, fail)
    IN  /\ pre_videos' = r.out
        /\ cache' = r.cache
        /\ prep_runs' = prep_runs + 1
        /\ prep_log' = Append(prep_log, [out |-> r.out, keys |-> r.keys,
                                         encoded |-> r.encoded, failed |-> r.failed])

\* One call of preprocess_background_videos (Mode A, lines 837-840).
Preprocess(j) ==
    /\ pc[j] = "idle"
    /\ bg_videos # <<>>
    /\ prep_runs < MaxPrepRuns
    /\ \E fail \in SUBSET (1..Len(bg_videos)) : DoPreprocess(cfg[j], fail)
    /\ UNCHANGED <<jobVars, regVars, bVars, cVars, cmdVars, scanVars, parseVars, bg_videos>>

\* --------------------------------------------- preparer specification
\* Playlists of up to MaxClips video clips (and the playlist of one image)
\* with the windows of PrepCfgs.
MaxClips == 2
ClipLens == {0, 1000, 3000, 5000}
Playlists ==
    UNION {[1..n -> {[len |-> d, image |-> FALSE] : d \in ClipLens}] : n \in 1..MaxClips}
    \cup {<<[len |-> 0, image |-> TRUE]>>}

PrepCfgs ==
    {[fps |-> 30, start_ms |-> s, has_dur |-> TRUE, dur_ms |-> d, fade_ms |-> 200,
      ts |-> <<0>>] : s \in {0, 2000, 3000, 9000}, d \in {0, 1000, 4000}}
    \cup
    {[fps |-> 30, start_ms |-> s, has_dur |-> FALSE, dur_ms |-> 0, fade_ms |-> 200,
      ts |-> <<0>>] : s \in {0, 2000, 3000, 9000}}

InitPrep ==
    /\ \E c \in PrepCfgs : IdleWith([j \in Jobs |-> IF j = 1 THEN c ELSE NoCfg])
    /\ CmdIdle
    /\ ScanIdle
    /\ ParseIdle
    /\ bg_videos \in Playlists
    /\ pre_videos = <<>>
    /\ cache = {}
    /\ prep_runs = 0
    /\ prep_log = <<>>

NextPrep == Preprocess(1)

SpecPrep == InitPrep /\ [][NextPrep]_vars

\* --------------------------------------------------- the built commands
AlacArgs == <<"-c:a", "alac", "-ac", "2">>
AacArgs == <<"-c:a", "aac", "-b:a", "320k", "-ac", "2">>

\* ffprobe_duration_sec (lines 532-553) of a path returned by the preparer,
\* in ms: a prepared segment is as long as what was taken (-t of lines
\* 261-333, 335-404), an original path as long as its whole clip.
ProbeMs(v, seg) == IF seg.src = "original" THEN v[seg.clip].len ELSE seg.take

\* Line 905: the index handed to build_filter_complex_content, the number
\* of inputs already on the command line.
CurrentIdx_BeforeAudio(n_pre, n_audio) == 1 + n_pre

CurrentIdx(n_pre, n_audio) == 1 + n_pre + n_audio

\* build_filter_complex_content lines 729-763: the background of the graph.
\* 1e-6 s is less than one tick, so `total_bg_s <= 1e-6` is total_bg <= 0
\* and `total_bg_s + 1e-6 < duration_s` is total_bg < duration_s.
FilterBackground(n_pre, total_bg, duration_s, bg_start_idx, cur_idx) ==
    IF n_pre = 0 \/ total_bg <= 0
      THEN [source |-> "black", bg |-> <<>>, filler_idx |-> cur_idx]
      ELSE [source |-> "segments",
            bg |-> [i \in 1..n_pre |-> bg_start_idx + (i - 1)],
            filler_idx |-> IF total_bg < duration_s THEN cur_idx ELSE -1]

\* Lines 912-923: the lavfi black input appended after the other inputs and
\* its length d, if any.
LavfiInput(n_pre, total_bg, duration_s) ==
    IF n_pre = 0 \/ total_bg <= 0 THEN <<duration_s>>
    ELSE IF total_bg < duration_s THEN <<duration_s - total_bg>>
    ELSE <<>>

\* build_and_run_ffmpeg_filter_complex lines 822-981 (with
\* build_filter_complex_content lines 729-791): the command of Mode A.
ACommand(j) ==
    /\ pc[j] = "idle"
    /\ cmd.mode = "none"
    /\ Len(cfg[j].ts) > 0
    /\ \E pr \in Probes, fail \in SUBSET (1..Len(bg_videos)) :
          LET c == cfg[j]
              timings == calculate_export_timings(c)
              codec == choose_best_codec(pr)
              pre == IF bg_videos # <<>> THEN PrepResult(c, fail).out ELSE <<>>
              n_pre == Len(pre)
              n_audio == Len(audio_paths)
              bg_start_idx == 1
              total_bg == MsTicks(SumSeq([n \in 1..n_pre |-> ProbeMs(bg_videos, pre[n])]),
                                  c.fps)
              graph == FilterBackground(n_pre, total_bg, timings.duration_s, bg_start_idx,
                                        CurrentIdx(n_pre, n_audio))
              lavfi == LavfiInput(n_pre, total_bg, timings.duration_s)
              total_audio_s == MsTicks(SumSeq(audio_paths), c.fps)
              have_audio == audio_paths # <<>> /\ timings.start_s < total_audio_s
          IN  /\ IF bg_videos # <<>>
                   THEN DoPreprocess(c, fail)
                   ELSE /\ pre_videos' = <<>>
                        /\ UNCHANGED <<cache, prep_runs, prep_log>>
              /\ probe' = pr
              /\ cmd' = [mode |-> "A",
                         durations_s |-> timings.durations_s,
                         start_s |-> timings.start_s,
                         duration_s |-> timings.duration_s,
                         vcodec |-> codec.vcodec,
                         preset |-> codec.preset,
                         vparams |-> codec.vparams,
                         have_audio |-> have_audio,
                         acodec |-> IF ~have_audio THEN <<>>
                                    ELSE IF chunk_index # <<>> THEN AlacArgs
                                    ELSE AacArgs,
                         inputs |-> <<"concat">> \o [n \in 1..n_pre |-> "bg"]
                                    \o [n \in 1..n_audio |-> "audio"]
                                    \o (IF lavfi # <<>> THEN <<"lavfi">> ELSE <<>>),
                         bg_source |-> graph.source,
                         bg |-> graph.bg,
                         total_bg_s |-> total_bg,
                         filler_idx |-> graph.filler_idx,
                         filler |-> lavfi]
    /\ UNCHANGED <<jobVars, regVars, bVars, cVars, chunk_index, audio_paths, bg_videos,
                   scanVars, parseVars>>

\* start_streaming_export lines 1619-1651 with VideoDecoder::new
\* (renderer.rs 61-95) and VideoEncoder::new (renderer.rs 121-218): the
\* background is the first file of the playlist, decoded from its beginning,
\* and the call fails without one; then the command of the Mode B encoder.
\* export_video passes should_prefer_hw_encoding() = true (lines 21-30, 1304).
BCommand(j) ==
    /\ pc[j] = "idle"
    /\ cmd.mode = "none"
    /\ IF bg_videos = <<>>
         THEN /\ Return(j, "Err")
              /\ UNCHANGED <<probe, cmd>>
         ELSE /\ \E pr \in {q \in Probes : q.prefer_hw} :
                    LET c == cfg[j]
                        codec == choose_best_codec(pr)
                        have_audio == audio_paths # <<>>
                    IN  /\ probe' = pr
                        /\ cmd' = [mode |-> "B",
                                   durations_s |-> <<>>,
                                   start_s |-> MsTicks(c.start_ms, c.fps),
                                   duration_s |-> MsTicks(IF c.has_dur THEN c.dur_ms ELSE 0,
                                                          c.fps),
                                   vcodec |-> codec.vcodec,
                                   preset |-> codec.preset,
                                   vparams |-> codec.vparams,
                                   have_audio |-> have_audio,
                                   acodec |-> IF have_audio THEN AacArgs ELSE <<>>,
                                   inputs |-> <<"pipe">>
                                              \o [n \in 1..Len(audio_paths) |-> "audio"],
                                   bg_source |-> "first_clip",
                                   bg |-> <<>>,
                                   total_bg_s |-> 0,
                                   filler_idx |-> -1,
                                   filler |-> <<>>]
              /\ UNCHANGED <<pc, result>>
    /\ UNCHANGED <<kind, events, wait_result, registered, sresult, regVars, bVars, cVars,
                   chunk_index, audio_paths, prepVars, scanVars, parseVars>>

\* ------------------------------------------------ command specification
\* One export builds its command, for every parameter set of FrameCfgs,
\* with and without chunk_index, with and without audio.
ChunkSet == {<<>>, <<0>>, <<1>>}
AudioSet == {<<>>, <<5000>>, <<50>>}

\* The playlist of the command specification: one clip of 5 s.
PlanPlaylist == <<[len |-> 5000, image |-> FALSE]>>

InitPlan ==
    /\ \E c \in FrameCfgs : IdleWith([j \in Jobs |-> IF j = 1 THEN c ELSE NoCfg])
    /\ chunk_index \in ChunkSet
    /\ audio_paths \in AudioSet
    /\ probe = NoProbe
    /\ cmd = NoCmd
    /\ bg_videos = PlanPlaylist
    /\ pre_videos = <<>>
    /\ cache = {}
    /\ prep_runs = 0
    /\ prep_log = <<>>
    /\ ScanIdle
    /\ ParseIdle

NextPlan ==
    \/ ACommand(1)
    \/ BCommand(1)

SpecPlan == InitPlan /\ [][NextPlan]_vars

\* -------------------------------------------- background specification
\* One export builds its command for the playlists of Playlists without a
\* clip of 3 s (and for no playlist at all) and the windows of PrepCfgs that
\* start at 0, 2000 and 9000 ms, with and without audio.
BgPlaylists ==
    {v \in Playlists : \A i \in 1..Len(v) : v[i].len # 3000} \cup {<<>>}

BgCfgs == {c \in PrepCfgs : c.start_ms # 3000}

InitBg ==
    /\ \E c \in BgCfgs : IdleWith([j \in Jobs |-> IF j = 1 THEN c ELSE NoCfg])
    /\ chunk_index = <<>>
    /\ audio_paths \in {<<>>, <<5000>>}
    /\ probe = NoProbe
    /\ cmd = NoCmd
    /\ bg_videos \in BgPlaylists
    /\ pre_videos = <<>>
    /\ cache = {}
    /\ prep_runs = 0
    /\ prep_log = <<>>
    /\ ScanIdle
    /\ ParseIdle

NextBg ==
    \/ ACommand(1)
    \/ BCommand(1)

SpecBg == InitBg /\ [][NextBg]_vars

\* ------------------------------------------------ subtitle directory scan
\* A file stem is a sequence of characters.
Digits == <<"0", "1", "2", "3", "4", "5", "6", "7", "8", "9">>
IsDigit(ch) == \E d \in 1..10 : Digits[d] = ch
DigitValue(ch) == (CHOOSE d \in 1..10 : Digits[d] = ch) - 1

RECURSIVE DigitsValue(_, _)
DigitsValue(q, acc) ==
    IF q = <<>> THEN acc ELSE DigitsValue(Tail(q), 10 * acc + DigitValue(q[1]))

\* str::parse::<i32>: an optional sign followed by one or more ASCII digits,
\* within the range of i32; <<>> = Err, <<v>> = Ok(v).
ParseI32(stem) ==
    LET signed == stem # <<>> /\ stem[1] \in {"+", "-"}
        body == IF signed THEN Tail(stem) ELSE stem
        mag == DigitsValue(body, 0)
        v == IF signed /\ stem[1] = "-" THEN 0 - mag ELSE mag
    IN  IF body = <<>> \/ Len(body) > 9 \/ \E i \in 1..Len(body) : ~IsDigit(body[i])
          THEN <<>>
          ELSE <<v>>

\* Lines 1205-1208 and 1233-1236: the key of a file, unwrap_or(0).
StemKey(f) == IF ParseI32(f.stem) = <<>> THEN 0 ELSE ParseI32(f.stem)[1]

\* Vec::sort_by_key (stable): insert x after the last element whose key is
\* not greater.
RECURSIVE InsertByKey(_, _)
InsertByKey(q, x) ==
    IF q = <<>> THEN <<x>>
    ELSE IF StemKey(x) < StemKey(q[1]) THEN <<x>> \o q
    ELSE <<q[1]>> \o InsertByKey(Tail(q), x)

RECURSIVE SortByKey(_)
SortByKey(q) ==
    IF q = <<>> THEN <<>> ELSE InsertByKey(SortByKey(SubSeq(q, 1, Len(q) - 1)), q[Len(q)])

\* Lines 1193-1202: the entries whose lower-cased extension is png.
RECURSIVE PngOnly(_)
PngOnly(q) ==
    IF q = <<>> THEN <<>>
    ELSE IF q[1].png THEN <<q[1]>> \o PngOnly(Tail(q)) ELSE PngOnly(Tail(q))

\* export_video lines 1188-1238: list the directory, keep the PNG files,
\* sort them by key, fail if there is none, derive the onsets.
ExportVideoScan(j) ==
    /\ pc[j] = "idle"
    /\ LET files == SortByKey(PngOnly(imgs_folder))
       IN  IF files = <<>>
             THEN /\ Return(j, "Err")
                  /\ UNCHANGED <<scan_files, scan_ts>>
             ELSE /\ scan_files' = files
                  /\ scan_ts' = [i \in 1..Len(files) |-> StemKey(files[i])]
                  /\ pc' = [pc EXCEPT ![j] = "scanned"]
                  /\ UNCHANGED result
    /\ kind' = [kind EXCEPT ![j] = "B"]
    /\ UNCHANGED <<events, wait_result, registered, sresult, regVars, bVars, cVars,
                   cmdVars, prepVars, parseVars, imgs_folder>>

\* ------------------------------------------------- scan specification
\* Directories of up to MaxFiles distinct entries, in any read_dir order.
MaxFiles == 3
DirEntries ==
    {[stem |-> st, png |-> TRUE] :
        st \in {<<"0">>, <<"5", "0">>, <<"1", "0", "0">>, <<"0", "0">>, <<"x">>,
                 <<"+", "5", "0">>}}
    \cup {[stem |-> <<"n", "o", "t", "e", "s">>, png |-> FALSE]}

DirListings ==
    UNION {{q \in [1..n -> DirEntries] : \A a, b \in 1..n : a # b => q[a] # q[b]} :
              n \in 0..MaxFiles}

InitScan ==
    /\ IdleWith([j \in Jobs |-> NoCfg])
    /\ CmdIdle
    /\ ParseIdle
    /\ PrepIdle
    /\ imgs_folder \in DirListings
    /\ scan_files = <<>>
    /\ scan_ts = <<>>

NextScan == ExportVideoScan(1)

SpecScan == InitScan /\ [][NextScan]_vars

\* ------------------------------------------------------ progress parsing
\* Lines and values are sequences of characters; a time is [s, us]: whole
\* seconds and microseconds.
TimeKey == <<"t", "i", "m", "e", "=">>
OutTimeMsKey == <<"o", "u", "t", "_", "t", "i", "m", "e", "_", "m", "s", "=">>

\* str::find: the 0-based position of the first occurrence of pat, -1 = None.
Find(line, pat) ==
    LET at == {i \in 0..(Len(line) - Len(pat)) : SubSeq(line, i + 1, i + Len(pat)) = pat}
    IN  IF at = {} THEN -1 ELSE CHOOSE i \in at : \A k \in at : i <= k

\* str::find(char::is_whitespace)
FindWhitespace(str) == Find(str, <<" ">>)

\* str::parse::<i64> of an unsigned decimal; <<>> = Err.
ParseI64(str) ==
    IF str = <<>> \/ Len(str) > 9 \/ \E i \in 1..Len(str) : ~IsDigit(str[i])
      THEN <<>>
      ELSE <<DigitsValue(str, 0)>>

RECURSIVE ToDigits(_)
ToDigits(n) ==
    IF n < 10 THEN <<Digits[n + 1]>> ELSE Append(ToDigits(n \div 10), Digits[(n % 10) + 1])

\* The last k digits of n, zero-padded.
RECURSIVE PadDigits(_, _)
PadDigits(n, k) ==
    IF k = 0 THEN <<>> ELSE Append(PadDigits(n \div 10, k - 1), Digits[(n % 10) + 1])

\* Line 1360: format!("{:.3}", ms as f64 / 1_000_000.0) of a count of
\* microseconds: the seconds rounded to three decimals.
FormatSeconds3(n) ==
    LET ms == RoundDiv(n, 1000)
    IN  ToDigits(ms \div 1000) \o <<".">> \o PadDigits(ms % 1000, 3)

\* extract_time_from_ffmpeg_line lines 1343-1367; <<>> = None.
extract_time_from_ffmpeg_line(line) ==
    LET t == Find(line, TimeKey)
        o == Find(line, OutTimeMsKey)
        rest(start) == SubSeq(line, start + 1, Len(line))
        tEnd == FindWhitespace(rest(t + 5))
        oEnd == FindWhitespace(rest(o + 12))
        ms == ParseI64(SubSeq(rest(o + 12), 1, oEnd))
    IN  IF t # -1
          THEN IF tEnd # -1 THEN <<SubSeq(rest(t + 5), 1, tEnd)>> ELSE <<rest(t + 5)>>
        ELSE IF o # -1 /\ oEnd # -1 /\ ms # <<>>
          THEN <<FormatSeconds3(ms[1])>>
        ELSE <<>>

\* str::parse::<f64> of digits with at most one decimal point; <<>> = Err.
ParseF64(str) ==
    LET dot == Find(str, <<".">>)
        int == IF dot = -1 THEN str ELSE SubSeq(str, 1, dot)
        frac == IF dot = -1 THEN <<>> ELSE SubSeq(str, dot + 2, Len(str))
        frac6 == SubSeq(frac \o <<"0", "0", "0", "0", "0", "0">>, 1, 6)
    IN  IF \/ int \o frac = <<>>
           \/ Len(int) > 9
           \/ \E i \in 1..Len(int) : ~IsDigit(int[i])
           \/ \E i \in 1..Len(frac) : ~IsDigit(frac[i])
          THEN <<>>
          ELSE <<[s |-> DigitsValue(int, 0), us |-> DigitsValue(frac6, 0)]>>

\* str::split(':')
RECURSIVE SplitColon(_)
SplitColon(str) ==
    LET c == Find(str, <<":">>)
    IN  IF c = -1 THEN <<str>>
        ELSE <<SubSeq(str, 1, c)>> \o SplitColon(SubSeq(str, c + 2, Len(str)))

\* parse_ffmpeg_time lines 1369-1384
parse_ffmpeg_time(time_str) ==
    LET parts == SplitColon(time_str)
        hours == ParseF64(parts[1])
        minutes == ParseF64(parts[2])
        seconds == ParseF64(parts[3])
    IN  IF ParseF64(time_str) # <<>> THEN ParseF64(time_str)[1]
        ELSE IF Len(parts) = 3 /\ hours # <<>> /\ minutes # <<>> /\ seconds # <<>>
               /\ hours[1].us = 0 /\ minutes[1].us = 0
          THEN [s |-> hours[1].s * 3600 + minutes[1].s * 60 + seconds[1].s,
                us |-> seconds[1].us]
        ELSE [s |-> 0, us |-> 0]

\* Lines 1021-1057: one line of the child's stderr; a time is relayed when
\* the line holds one of the two keys and a value is extracted.
ProgressLine(l) ==
    /\ progress_line' = l
    /\ current_time_s' =
          IF (Find(l.text, TimeKey) # -1 \/ Find(l.text, OutTimeMsKey) # -1)
             /\ extract_time_from_ffmpeg_line(l.text) # <<>>
            THEN <<parse_ffmpeg_time(extract_time_from_ffmpeg_line(l.text)[1])>>
            ELSE <<>>
    /\ UNCHANGED <<jobVars, regVars, bVars, cVars, cmdVars, prepVars, scanVars>>

\* ------------------------------------------------ progress specification
\* The lines of the two toolchain forms, alone on their line or between
\* other fields: time=HH:MM:SS.fff and out_time_ms=N (N microseconds).
MaxHours == 1
LinePrefixes == {<<>>, <<"f", "=", "1", " ">>}
LineSuffixes == {<<>>, <<" ">>, <<" ", "b", "=", "1">>}
Fractions == {0, 50, 123}
OutTimes == {0, 40000, 1000000, 1234567, 2500000}

TimeLines ==
    {[form |-> "time",
      text |-> p \o TimeKey \o PadDigits(h, 2) \o <<":">> \o PadDigits(m, 2) \o <<":">>
               \o PadDigits(s, 2) \o <<".">> \o PadDigits(f, 3) \o x,
      h |-> h, m |-> m, s |-> s, us |-> f * 1000] :
        p \in LinePrefixes, x \in LineSuffixes, h \in 0..MaxHours, m \in {0, 59},
        s \in {0, 7}, f \in Fractions}

OutTimeLines ==
    {[form |-> "out_time_ms",
      text |-> p \o OutTimeMsKey \o ToDigits(n) \o x,
      h |-> 0, m |-> 0, s |-> n \div 1000000, us |-> n % 1000000] :
        p \in LinePrefixes, x \in LineSuffixes, n \in OutTimes}

InitParse ==
    /\ IdleWith([j \in Jobs |-> NoCfg])
    /\ CmdIdle
    /\ PrepIdle
    /\ ScanIdle
    /\ ParseIdle

NextParse == \E l \in TimeLines \cup OutTimeLines : ProgressLine(l)

SpecParse == InitParse /\ [][NextParse]_vars

\* =================================================================== claims
CancelReturned(c, j) == cpc[c] = "done" /\ ctarget[c] = j

LongRunning(j) == pc[j] \in {"a_read", "a_waiting", "c_poll", "b_loop"}

\* C1: every started job has inserted itself in ACTIVE_EXPORTS before its
\* first long-running I/O step (Mode A stderr read and wait, Concat poll,
\* Mode B frame loop), and a job that has ended has no entry.
C1_RegisteredBeforeIO ==
    \A j \in Jobs :
        /\ LongRunning(j) => registered[j]
        /\ Terminal(j) => j \notin ACTIVE_EXPORTS

\* C2: a cancel_export that reports having killed the job (it took the child
\* out of the slot) and the job returning success never both happen: the job
\* must have observed None.
C2_OneWinner ==
    \A c \in Cancels : \A j \in Jobs :
        (CancelReturned(c, j) /\ cres[c] = "OkCancelled") => result[j] # "Ok"

\* C3: once a cancel_export issued while the job was in flight has returned,
\* a Mode B job writes no further frame and a Concat job leaves its polling
\* loop only with the cancelled error.
C3_CancelStops ==
    [][\A j \in Jobs :
          (\E c \in Cancels : CancelReturned(c, j) /\ cInFlight[c]) =>
              /\ kind[j] = "B" => written'[j] = written[j]
              /\ (kind[j] = "C" /\ pc[j] # "done" /\ pc'[j] = "done")
                     => result'[j] = "Cancelled"]_vars

\* C4: a cancel_export called while an export_video job is in its frame loop
\* returns success; afterwards the job emits no export-complete, and once
\* both have returned neither the decoder nor the encoder is alive.
C4_CancelMidExport ==
    \A c \in Cancels : \A j \in Jobs :
        (CancelReturned(c, j) /\ cInFlight[c] /\ kind[j] = "B") =>
            /\ cres[c] \in {"OkCancelled", "OkAlreadyDone"}
            /\ Terminal(j) => /\ ~Has(events[j], "export-complete")
                              /\ dec[j] # "running"
                              /\ enc[j] # "running"

\* C5: a job that has returned (on any path) has no entry in ACTIVE_EXPORTS
\* nor in ACTIVE_STREAMS; when no job is in flight both maps are empty.
C5_TerminalNoEntry ==
    /\ \A j \in Jobs : Terminal(j) => (j \notin ACTIVE_EXPORTS /\ j \notin ACTIVE_STREAMS)
    /\ (\A j \in Jobs : pc[j] \in {"idle", "done"})
           => (ACTIVE_EXPORTS = {} /\ ACTIVE_STREAMS = {})

\* C6: a Mode B export whose render loop failed (decoder read, GPU readback,
\* pipe write) or whose encoder exited non-zero in finish() has emitted
\* export-error, and neither start_streaming_export nor export_video
\* returned Ok for it.
C6_FailureNotOk ==
    \A j \in Jobs :
        (kind[j] = "B" /\ Terminal(j) /\ (loop_err[j] # "none" \/ finish_res[j] = "Err")) =>
            /\ Has(events[j], "export-error")
            /\ sresult[j] # "Ok"
            /\ result[j] # "Ok"

\* C7: a step of cancel_export whose export_id has no entry in ACTIVE_EXPORTS
\* kills no process and changes no registry entry or slot, and its lookup
\* ends the call with the not-found error.
C7_NotFound ==
    [][\A c \in Cancels :
          (cpc[c] \in {"idle", "lookup"} /\ cpc'[c] # cpc[c]
             /\ ctarget'[c] \notin ACTIVE_EXPORTS) =>
              /\ child' = child /\ dec' = dec /\ enc' = enc
              /\ slot' = slot
              /\ ACTIVE_EXPORTS' = ACTIVE_EXPORTS
              /\ cpc[c] = "lookup" => (cres'[c] = "ErrNotFound" /\ cpc'[c] = "done")]_vars

\* C7 witness: cancel_export returned not-found for a job that had been
\* registered and has completed, while another job still has its entry and a
\* live child.
C7_Witness ==
    \E c \in Cancels :
        /\ cpc[c] = "done" /\ cres[c] = "ErrNotFound"
        /\ registered[ctarget[c]] /\ Terminal(ctarget[c])
        /\ \E j \in Jobs \ {ctarget[c]} : j \in ACTIVE_EXPORTS /\ child[j] = "running"

C9_FrameCount ==
    \A j \in Jobs :
        (kind[j] = "B" /\ Terminal(j) /\ loop_err[j] = "none" /\ finish_res[j] = "Ok"
           /\ dec[j] = "running")
            => written[j] = DurationFrames(cfg[j])

\* C10: for the last composed frame k, frame_time_ms = round(k * 1000 / fps)
\* + start_ms, the active subtitle is the index i with
\* t[i] <= frame_time_ms < t[i+1] (no upper bound for the last), and there is
\* no active subtitle and no blend when frame_time_ms < t[0].
C10_FrameTimeAndSubtitle ==
    \A j \in Jobs :
        composed_idx[j] >= 0 =>
            LET c == cfg[j]
                t == RoundDiv(composed_idx[j] * 1000, c.fps) + c.start_ms
            IN  /\ time_ms[j] = t
                /\ \A i \in 1..Len(c.ts) :
                       (current_sub_idx[j] = i) <=>
                           (c.ts[i] <= t /\ (i = Len(c.ts) \/ t < c.ts[i + 1]))
                /\ t < c.ts[1] => (current_sub_idx[j] = 0 /\ ~blended[j])

\* C11: for the last composed frame with active subtitle i, alpha is
\* min(1, rel_in / fade_ms) while fading in, min(1, rel_out / fade_ms) while
\* fading out and 1 otherwise, with rel_in = frame_time_ms - t[i],
\* rel_out = t[i+1] - frame_time_ms, and for the last subtitle t[i+1] =
\* t[n-1] + max(fade_ms, 1000).
C11_AlphaFormula ==
    \A j \in Jobs :
        (composed_idx[j] >= 0 /\ current_sub_idx[j] # 0) =>
            LET c == cfg[j]
                i == current_sub_idx[j]
                t_next == IF i < Len(c.ts) THEN c.ts[i + 1]
                                           ELSE c.ts[Len(c.ts)] + TailMs(c)
                rel_in == time_ms[j] - c.ts[i]
                rel_out == t_next - time_ms[j]
                expected == IF rel_in < c.fade_ms THEN MinOne(<<rel_in, c.fade_ms>>)
                            ELSE IF rel_out < c.fade_ms THEN MinOne(<<rel_out, c.fade_ms>>)
                            ELSE One
            IN  RatEq(alpha[j], expected)

\* Frame at which a fade-in that starts at frame 0 is complete.
FadeInFrames(c) == (c.fade_ms * c.fps) \div 1000

EndMs(c) == IF c.has_dur THEN c.start_ms + c.dur_ms ELSE c.ts[Len(c.ts)] + TailMs(c)

\* C13: the segment durations of a Mode A command sum to
\* snap(t[n-1] + tail) - snap(t[0]), tail = max(fade_ms, 1000).
C13_DurationsSum ==
    cmd.mode = "A" =>
        LET c == cfg[1]
        IN  SumSeq(cmd.durations_s) =
                FrameTicks * (SnapFrames(c.ts[Len(c.ts)] + TailMs(c), c.fps)
                                - SnapFrames(c.ts[1], c.fps))

\* C14: every segment duration of a Mode A command is a whole number of
\* frames and at least one frame.
C14_DurationsWholeFrames ==
    cmd.mode = "A" =>
        \A i \in 1..Len(cmd.durations_s) :
            /\ cmd.durations_s[i] % FrameTicks = 0
            /\ cmd.durations_s[i] >= FrameTicks

\* C15: the start offset and the duration of a built command (Mode A and
\* Mode B) are snap(start_ms) and max(end_s - snap(start_ms), frame_dur),
\* end_s = snap(start_ms + duration_ms) with a window and
\* snap(t[n-1] + max(fade_ms, 1000)) without.
C15_StartAndDuration ==
    cmd.mode # "none" =>
        LET c == cfg[1]
            start_f == SnapFrames(c.start_ms, c.fps)
            end_f == SnapFrames(EndMs(c), c.fps)
        IN  /\ cmd.start_s = FrameTicks * start_f
            /\ cmd.duration_s = FrameTicks * Max(end_f - start_f, 1)

\* Hardware encoders of the probe that are viable: NVENC when its
\* validation encode (with the 256x256 retry) succeeds, the others by being
\* listed.
Viable(pr) ==
    {e \in {pr.listed[i] : i \in 1..Len(pr.listed)} :
        e = Nvenc => test_nvenc_availability(pr.t128, pr.t256)}

\* C19: the command uses the first viable hardware encoder of the listing,
\* and libx264 (ultrafast, crf 22, zerolatency, bf 0) only when no listed
\* hardware encoder is viable; every plan carries -pix_fmt yuv420p.
C19_FirstViableCodec ==
    cmd.mode # "none" =>
        LET v == Viable(probe)
            first == CHOOSE i \in 1..Len(probe.listed) :
                        /\ probe.listed[i] \in v
                        /\ \A k \in 1..(i - 1) : probe.listed[k] \notin v
        IN  /\ v # {} => cmd.vcodec = probe.listed[first]
            /\ v = {} => /\ cmd.vcodec = "libx264"
                          /\ cmd.preset = <<"ultrafast">>
                          /\ cmd.vparams = Libx264Plan.vparams
            /\ \E i \in 1..(Len(cmd.vparams) - 1) :
                   cmd.vparams[i] = "-pix_fmt" /\ cmd.vparams[i + 1] = "yuv420p"

\* C20: a built command that has audio encodes it as ALAC stereo when
\* chunk_index is present and as AAC 320 kb/s stereo when it is absent, in
\* Mode A and in Mode B.
C20_AudioCodec ==
    (cmd.mode # "none" /\ cmd.have_audio) =>
        cmd.acodec = IF chunk_index # <<>> THEN AlacArgs ELSE AacArgs

\* Playlist time at which clip i starts / ends.
CumStart(v, i) == SumSeq([k \in 1..(i - 1) |-> v[k].len])
CumEnd(v, i) == CumStart(v, i) + v[i].len

\* C16: after a call on a playlist of videos, the returned list has exactly
\* one entry per clip that intersects the window, in playlist order (clips
\* ending at or before start_ms and clips starting at or after the window
\* end have none), and every prepared segment has start_within =
\* max(0, start_ms - cum_start) and take = min(clip_duration - start_within,
\* remaining budget).
C16_SegmentsOfWindow ==
    (prep_runs > 0 /\ \A i \in 1..Len(bg_videos) : ~bg_videos[i].image) =>
        LET v == bg_videos
            c == cfg[1]
            limit == IF c.has_dur THEN c.dur_ms ELSE LimitNone
            hit == {i \in 1..Len(v) :
                        /\ CumEnd(v, i) > c.start_ms
                        /\ CumStart(v, i) - c.start_ms < limit
                        /\ v[i].len > 0 /\ limit > 0}
        IN  /\ Len(pre_videos) = Cardinality(hit)
            /\ \A n \in 1..Len(pre_videos) :
                   LET e == pre_videos[n]
                       sw == Max(0, c.start_ms - CumStart(v, e.clip))
                       budget == limit - (Max(CumStart(v, e.clip), c.start_ms) - c.start_ms)
                   IN  /\ e.clip \in hit
                       /\ n > 1 => pre_videos[n - 1].clip < e.clip
                       /\ e.src = "cache" =>
                              /\ e.start = sw
                              /\ e.take = Min(v[e.clip].len - sw, budget)

\* C16 witness: clips of 3 s and 5 s with window [2000, 6000) give
\* (clip 1, start 2000, take 1000) and (clip 2, start 0, take 3000).
C16_Witness ==
    /\ prep_runs > 0
    /\ bg_videos = <<[len |-> 3000, image |-> FALSE], [len |-> 5000, image |-> FALSE]>>
    /\ cfg[1].start_ms = 2000 /\ cfg[1].has_dur /\ cfg[1].dur_ms = 4000
    /\ pre_videos = <<Segment(1, 2000, 1000, "cache"), Segment(2, 0, 3000, "cache")>>

\* C17: at every output frame k that both modes produce, the subtitle index
\* Mode B selects (t[i] <= start_ms + frame time < t[i+1]) is the index of
\* the Mode A trim interval [s_i, s_i + d_i) that contains output time
\* k / fps, also when start_ms differs from t[0].
C17_ModesAgree ==
    \A j \in Jobs :
        (composed_idx[j] >= 0 /\ composed_idx[j] < DurationFrames(cfg[j])) =>
            current_sub_idx[j] =
                TrimIndex(calculate_export_timings(cfg[j]).durations_s,
                          FrameTicks * composed_idx[j])

\* C18: the onsets export_video passes on are sorted and strictly
\* increasing, and a directory whose PNG stems give a duplicate onset
\* (stems that do not parse included) is rejected, not passed on.
C18_OnsetsStrictlyIncreasing ==
    \A j \in Jobs :
        pc[j] = "scanned" =>
            \A i \in 1..(Len(scan_ts) - 1) : scan_ts[i] < scan_ts[i + 1]

\* Number of occurrences of e in the sequence q.
Count(q, e) == Cardinality({i \in 1..Len(q) : q[i] = e})

\* C27: an export_video job emits at most one export-complete event, and
\* none at all once it has emitted export-error.
C27_TerminalEventsExclusive ==
    \A j \in Jobs :
        kind[j] = "B" =>
            /\ Count(events[j], "export-complete") <= 1
            /\ ~(Has(events[j], "export-error") /\ Has(events[j], "export-complete"))

\* C28: at every composed frame where the blend pass ran, the alpha passed
\* to render_image lies in [0, 1].
C28_AlphaInRange ==
    \A j \in Jobs :
        (composed_idx[j] >= 0 /\ blended[j]) =>
            /\ RatLe(<<0, 1>>, alpha[j])
            /\ RatLe(alpha[j], One)

\* C23: at every composed frame where the blend pass ran with active
\* subtitle i, the subtitle texture holds the image of the file <t[i]>.png,
\* and the texture was (re)loaded for the index that is active.
C23_TextureOfActiveSubtitle ==
    \A j \in Jobs :
        (composed_idx[j] >= 0 /\ blended[j]) =>
            /\ last_sub_idx[j] = current_sub_idx[j]
            /\ sub_texture[j] = cfg[j].ts[current_sub_idx[j]]

\* The playlist is made of video clips and the last call encoded (or found
\* in the cache) every segment it returned.
AllPrepared ==
    /\ prep_runs > 0
    /\ \A i \in 1..Len(bg_videos) : ~bg_videos[i].image
    /\ \A n \in 1..Len(pre_videos) : pre_videos[n].src = "cache"

\* Playlist time at which the n-th returned segment starts.
SegStart(n) == CumStart(bg_videos, pre_videos[n].clip) + pre_videos[n].start

\* C30: when every encode succeeds or hits the cache, the returned segments
\* tile the window in playlist time: every take is positive, the first
\* segment starts at start_ms, each next one starts where the previous one
\* ended, the takes sum to min(duration_ms, total - start_ms) when that is
\* positive (no segment otherwise), and the sum never exceeds duration_ms.
C30_SegmentsTileWindow ==
    AllPrepared =>
        LET c == cfg[1]
            limit == IF c.has_dur THEN c.dur_ms ELSE LimitNone
            total == SumSeq([k \in 1..Len(bg_videos) |-> bg_videos[k].len])
            avail == Min(limit, total - c.start_ms)
            sum == SumSeq([n \in 1..Len(pre_videos) |-> pre_videos[n].take])
        IN  /\ \A n \in 1..Len(pre_videos) :
                   /\ pre_videos[n].take > 0
                   /\ n = 1 => SegStart(n) = c.start_ms
                   /\ n > 1 => SegStart(n) = SegStart(n - 1) + pre_videos[n - 1].take
            /\ IF avail > 0 THEN sum = avail ELSE pre_videos = <<>>
            /\ c.has_dur => sum <= c.dur_ms

\* C30 witness: clips of 3 s and 5 s from 2000 ms on without a duration give
\* two encoded segments, 1000 ms and 5000 ms long.
C30_Witness ==
    /\ AllPrepared
    /\ ~cfg[1].has_dur /\ cfg[1].start_ms = 2000
    /\ Len(pre_videos) = 2
    /\ pre_videos[1].take = 1000 /\ pre_videos[2].take = 5000

\* C22: two calls with the same playlist, window and encoding parameters
\* compute the same cache paths, and when no encode of the first call failed
\* the second call runs no encode and returns the same list.
C22_SecondCallHitsCache ==
    Len(prep_log) >= 2 =>
        /\ prep_log[2].keys = prep_log[1].keys
        /\ prep_log[1].failed = {} =>
               /\ prep_log[2].encoded = {}
               /\ prep_log[2].out = prep_log[1].out

\* C22 witness: a first call that encoded two segments without a failure,
\* followed by a second call.
C22_Witness ==
    /\ Len(prep_log) = 2
    /\ prep_log[1].failed = {}
    /\ Cardinality(prep_log[1].encoded) = 2
    /\ Len(prep_log[2].out) = 2

\* C25: every clip whose encode failed is in the returned list with its
\* original path, for the clips of a video playlist and for the single image.
C25_FailedEncodeFallsBack ==
    \A n \in 1..Len(prep_log) :
        \A i \in prep_log[n].failed :
            \E k \in 1..Len(prep_log[n].out) :
                /\ prep_log[n].out[k].clip = i
                /\ prep_log[n].out[k].src = "original"

\* C24: in a Mode A command the black lavfi input is there exactly when the
\* prepared background is shorter than duration_s or there is no usable
\* background; it is as long as the deficit (as duration_s when there is no
\* background); and the index the filter graph uses for it is the position
\* of the lavfi input on the command line, after the subtitle list, the
\* background segments and the audio inputs.
C24_BlackFiller ==
    cmd.mode = "A" =>
        LET none == pre_videos = <<>> \/ cmd.total_bg_s <= 0
            short == cmd.total_bg_s < cmd.duration_s
        IN  /\ (cmd.filler # <<>>) <=> (none \/ short)
            /\ (cmd.filler_idx # -1) <=> (cmd.filler # <<>>)
            /\ cmd.filler # <<>> =>
                   /\ cmd.filler[1] = IF none THEN cmd.duration_s
                                      ELSE cmd.duration_s - cmd.total_bg_s
                   /\ cmd.filler_idx + 1 \in 1..Len(cmd.inputs)
                   /\ cmd.inputs[cmd.filler_idx + 1] = "lavfi"
                   /\ cmd.filler_idx = 1 + Len(pre_videos) + Len(audio_paths)

\* C24 witness: two prepared segments and one audio input, 1 s of background
\* short of the duration: the filler is input 4.
C24_Witness ==
    /\ cmd.mode = "A"
    /\ Len(pre_videos) = 2 /\ Len(audio_paths) = 1
    /\ cmd.filler = <<cmd.duration_s - cmd.total_bg_s>>
    /\ cmd.total_bg_s > 0
    /\ cmd.filler_idx = 4

\* No clip of the playlist of videos covers an instant of the window.
WindowOffPlaylist ==
    /\ bg_videos # <<>>
    /\ \A i \in 1..Len(bg_videos) :
          /\ ~bg_videos[i].image
          /\ \/ bg_videos[i].len = 0
             \/ CumEnd(bg_videos, i) <= cfg[1].start_ms
             \/ cfg[1].has_dur /\ CumStart(bg_videos, i) >= cfg[1].start_ms + cfg[1].dur_ms

\* C21: an export whose window meets no clip of the playlist uses no
\* background segment and a black source of length duration_s.
C21_BlackOffPlaylist ==
    (cmd.mode # "none" /\ WindowOffPlaylist) =>
        /\ cmd.bg_source = "black"
        /\ cmd.bg = <<>>
        /\ cmd.filler = <<cmd.duration_s>>

\* C26: a line of the form time=HH:MM:SS.fff relays hours * 3600 +
\* minutes * 60 + seconds and a line of the form out_time_ms=N relays
\* N / 1,000,000 seconds, with or without whitespace after the value.
C26_ProgressTime ==
    progress_line.form \in {"time", "out_time_ms"} =>
        current_time_s = <<[s |-> progress_line.h * 3600 + progress_line.m * 60
                                  + progress_line.s,
                            us |-> progress_line.us]>>

\* A job thread holds its slot guard only while it waits on its child, and
\* a cancel_export holds ACTIVE_EXPORTS only while it is about to lock the
\* slot: nobody asks for ACTIVE_EXPORTS with a slot guard in hand.
NoGuardBeforeRegistry ==
    /\ \A j \in Jobs : slotLock[j] # Free =>
           /\ slotLock[j] = JobThread(j)
           /\ pc[j] = "a_waiting"
    /\ \A c \in Cancels : (exportsLock = CancelThread(c)) <=> (cpc[c] = "lock_slot")

\* C29: cancel_export and the Mode A / concat_videos jobs never deadlock:
\* no thread asks for the ACTIVE_EXPORTS lock while it holds a slot guard,
\* and every cancel_export that was called returns.
C29_CancelReturns ==
    /\ []NoGuardBeforeRegistry
    /\ \A c \in Cancels : (cpc[c] # "idle") ~> (cpc[c] = "done")

\* C29 witness: a cancel_export that had to wait behind the guard of a
\* Mode A job in child.wait() has returned.
C29_Witness ==
    \E c \in Cancels :
        /\ cpc[c] = "done"
        /\ cres[c] = "OkAlreadyDone"
        /\ kind[ctarget[c]] = "A"
        /\ wait_result[ctarget[c]] # "none"

====
